---- MODULE Spec2Model ----
(***************************************************************************)
(* Model of screen_test (src/src/main.rs): the double-buffered DRM Surface *)
(* (front index, is_flipping), the device it talks to, the scripted        *)
(* sequencer AppState, and the poll-driven main loop.                      *)
(*                                                                         *)
(* Three specifications share the variables:                               *)
(*   Spec         main(): start-up write+flip, then the loop, with the     *)
(*                display hardware completing flips asynchronously;        *)
(*   SpecSurface  the Surface methods called in any order on a freshly     *)
(*                constructed Surface, with any events queued on the fd;   *)
(*   SpecSeq      the key handlers and the render tick acting on AppState. *)
(***************************************************************************)
EXTENDS Integers, Sequences, FiniteSets, TLC

\* ------------------------------------------------------------------ bounds
\* display width in pixels (mode.size().0), height in rows (mode.size().1)
DispW == 6
DispH == 2
\* events that may sit unread on the DRM fd
MaxDrmQ == 2
\* page flips the device model lets pile up before it answers EBUSY itself
MaxPending == 2
\* key events one fetch_events() call may return
MaxBatch == 2
\* calls recorded since construction
MaxTrace == 4

\* ------------------------------------------------------------ the Surface
\* row pitch of the dumb buffers: 32 bits per pixel, no padding
Stride == 4 * DispW

\* struct Surface as built by open_default: frames[0] is on screen
Surface_new == [front |-> 0, is_flipping |-> FALSE]

\* the device behind Card: the framebuffer the CRTC scans out (set_crtc with
\* f0.fb; -1 once the CRTC is unset), the framebuffers asked for by accepted
\* page flips that have not completed, the events waiting on the fd, the
\* framebuffer handles and dumb buffers of the two Frames that exist, and the
\* teardown requests the device has received, in order
Card_new ==
    [scanout |-> 0, pending |-> <<>>, events |-> <<>>,
     fbs |-> {0, 1}, dbs |-> {0, 1}, log |-> <<>>]

DrmEvents == {"PageFlip", "Vblank"}

\* back() returning the front index: a fault the properties must reject
back_front(s) == s.front

back(s) == 1 - s.front

\* write_to_back whose ensure! asks for one row only
write_to_back_one_row(s, src_len, map_ok) ==
    IF src_len < Stride
    THEN [ret |-> "source buffer too small", frame |-> -1]
    ELSE IF ~map_ok
    THEN [ret |-> "map_dumb_buffer failed", frame |-> -1]
    ELSE [ret |-> "ok", frame |-> back(s)]

\* write_to_back: ret and the frame index the rows were copied into (-1: none)
write_to_back(s, src_len, map_ok) ==
    IF src_len < Stride * DispH
    THEN [ret |-> "source buffer too small", frame |-> -1]
    ELSE IF ~map_ok
    THEN [ret |-> "map_dumb_buffer failed", frame |-> -1]
    ELSE [ret |-> "ok", frame |-> back(s)]

\* a copy loop that takes every row from the start of src
copy_rows_from_first(dst, src, y, h) ==
    [map |-> [i \in 1..Len(dst) |->
                IF i <= h * Stride THEN src[((i - 1) % Stride) + 1] ELSE dst[i]],
     ret |-> "ok"]

\* the rows y..h-1 of the copy loop of write_to_back: row y is the byte range
\* p0..p1 of both slices; a range outside a slice panics, with the rows
\* before it already copied
RECURSIVE copy_rows(_, _, _, _)
copy_rows(dst, src, y, h) ==
    IF y >= h
    THEN [map |-> dst, ret |-> "ok"]
    ELSE LET p0 == y * Stride
             p1 == p0 + Stride
         IN IF p1 > Len(src) \/ p1 > Len(dst)
            THEN [map |-> dst, ret |-> "panic"]
            ELSE copy_rows([i \in 1..Len(dst) |->
                              IF i > p0 /\ i <= p1 THEN src[i] ELSE dst[i]],
                           src, y + 1, h)

\* flip() without its ensure!(!self.is_flipping)
flip_unchecked(s, c, dev_ok) ==
    IF ~dev_ok
    THEN [surface |-> s, card |-> c, ret |-> "page_flip failed"]
    ELSE [surface |-> [s EXCEPT !.is_flipping = TRUE],
          card |-> [c EXCEPT !.pending = Append(@, back(s))],
          ret |-> "ok"]

\* flip() that marks the flip pending before it asks the device
flip_marks_first(s, c, dev_ok) ==
    IF s.is_flipping
    THEN [surface |-> s, card |-> c, ret |-> "flip already pending"]
    ELSE IF ~dev_ok
    THEN [surface |-> [s EXCEPT !.is_flipping = TRUE], card |-> c,
          ret |-> "page_flip failed"]
    ELSE [surface |-> [s EXCEPT !.is_flipping = TRUE],
          card |-> [c EXCEPT !.pending = Append(@, back(s))],
          ret |-> "ok"]

\* flip: dev_ok is the device's answer to the page_flip ioctl
flip(s, c, dev_ok) ==
    IF s.is_flipping
    THEN [surface |-> s, card |-> c, ret |-> "flip already pending"]
    ELSE IF ~dev_ok
    THEN [surface |-> s, card |-> c, ret |-> "page_flip failed"]
    ELSE [surface |-> [s EXCEPT !.is_flipping = TRUE],
          card |-> [c EXCEPT !.pending = Append(@, back(s))],
          ret |-> "ok"]

\* the loop of handle_drm_events without its `if self.is_flipping`
RECURSIVE scan_events_any(_, _)
scan_events_any(s, evs) ==
    IF evs = <<>>
    THEN [surface |-> s, ret |-> "false"]
    ELSE IF Head(evs) = "PageFlip"
    THEN [surface |-> [front |-> back(s), is_flipping |-> FALSE], ret |-> "true"]
    ELSE scan_events_any(s, Tail(evs))

\* the for loop of handle_drm_events over the events one receive_events()
\* call returned: the first PageFlip seen while is_flipping swaps and returns
RECURSIVE scan_events(_, _)
scan_events(s, evs) ==
    IF evs = <<>>
    THEN [surface |-> s, ret |-> "false"]
    ELSE IF Head(evs) = "PageFlip" /\ s.is_flipping
    THEN [surface |-> [front |-> back(s), is_flipping |-> FALSE], ret |-> "true"]
    ELSE scan_events(s, Tail(evs))

\* handle_drm_events: receive_events() reads everything queued on the fd (or
\* fails, read_ok = FALSE, and `?` returns the error); events left in the
\* batch after the early return are dropped with the iterator
handle_drm_events(s, c, read_ok) ==
    IF ~read_ok
    THEN [surface |-> s, card |-> c, ret |-> "err"]
    ELSE LET r == scan_events(s, c.events)
         IN [surface |-> r.surface,
             card |-> [c EXCEPT !.events = <<>>],
             ret |-> r.ret]

\* the display hardware at a vertical blank: the oldest accepted flip takes
\* effect and its completion event is queued
hw_complete(c) ==
    [c EXCEPT !.scanout = Head(c.pending),
              !.pending = Tail(c.pending),
              !.events = Append(@, "PageFlip")]

\* one turn of `for f in &self.frames` in drop: both results are discarded
destroy_frame(c, f, fb_ok, db_ok) ==
    [c EXCEPT !.log = @ \o << <<"destroy_framebuffer", f>>,
                              <<"destroy_dumb_buffer", f>> >>,
              !.fbs = IF fb_ok THEN @ \ {f} ELSE @,
              !.dbs = IF db_ok THEN @ \ {f} ELSE @]

\* a drop that gives up at the first request the device refuses
drop_surface_until_error(c, oks) ==
    LET c0 == [c EXCEPT !.log = Append(@, <<"set_crtc_none", -1>>),
                        !.scanout = IF oks[1] THEN -1 ELSE @]
    IN IF ~oks[1] THEN c0
       ELSE IF ~(oks[2] /\ oks[3]) THEN destroy_frame(c0, 0, oks[2], oks[3])
       ELSE destroy_frame(destroy_frame(c0, 0, oks[2], oks[3]), 1, oks[4], oks[5])

\* impl Drop for Surface; oks are the device's answers to the five requests
drop_surface(c, oks) ==
    LET c0 == [c EXCEPT !.log = Append(@, <<"set_crtc_none", -1>>),
                        !.scanout = IF oks[1] THEN -1 ELSE @]
    IN destroy_frame(destroy_frame(c0, 0, oks[2], oks[3]), 1, oks[4], oks[5])

\* answers the device can give to a page_flip ioctl
DevAnswers(c) == IF Len(c.pending) < MaxPending THEN BOOLEAN ELSE {FALSE}

\* ---------------------------------------------------------- the sequencer
SOLIDS == << <<255, 0, 0>>, <<0, 255, 0>>, <<0, 0, 255>>,
             <<255, 255, 255>>, <<128, 128, 128>>, <<0, 0, 0>> >>

\* #[derive(Default)] for Step: PatternKind::Solid, GradMode::Luma, zeros
Step_default ==
    [pat |-> "Solid", solid_idx |-> 0, grad_mode |-> "Luma",
     grad_vertical |-> FALSE, checker_cell |-> 0, motion_speed |-> 0]

create_script ==
    [i \in 1..Len(SOLIDS) |-> [Step_default EXCEPT !.solid_idx = i - 1]]
    \o << [Step_default EXCEPT !.pat = "Gradient"],
          [Step_default EXCEPT !.pat = "Gradient", !.grad_vertical = TRUE] >>
    \o [i \in 1..3 |->
          [Step_default EXCEPT !.pat = "Gradient",
                               !.grad_mode = <<"Red", "Green", "Blue">>[i]]]
    \o [i \in 1..4 |->
          [Step_default EXCEPT !.pat = "Checker",
                               !.checker_cell = <<16, 8, 4, 2>>[i]]]
    \o [i \in 1..3 |->
          [Step_default EXCEPT !.pat = "Motion",
                               !.motion_speed = <<4, 8, 16>>[i]]]
    \o << [Step_default EXCEPT !.pat = "Patches"],
          [Step_default EXCEPT !.pat = "Viewing"] >>

\* self.script[self.script_idx] is bounds-checked: outside 0..len-1 it panics
in_script(st) == st.script_idx >= 0 /\ st.script_idx < Len(st.script)

\* current_step, for a cursor inside the script (Rust indexes from 0)
current_step(st) == st.script[st.script_idx + 1]

\* apply_current_step without the reset of motion_x and motion_dir
apply_current_step_keep_motion(st) ==
    LET step == current_step(st)
    IN [st EXCEPT !.pattern = step.pat,
                  !.solid_idx = step.solid_idx,
                  !.grad_mode = step.grad_mode,
                  !.grad_vertical = step.grad_vertical,
                  !.checker_cell = step.checker_cell,
                  !.motion_speed = step.motion_speed]

apply_current_step(st) ==
    LET step == current_step(st)
    IN [st EXCEPT !.pattern = step.pat,
                  !.solid_idx = step.solid_idx,
                  !.grad_mode = step.grad_mode,
                  !.grad_vertical = step.grad_vertical,
                  !.checker_cell = step.checker_cell,
                  !.motion_speed = step.motion_speed,
                  !.motion_x = 0,
                  !.motion_dir = 1]

AppState_new ==
    apply_current_step(
        [pattern |-> "Solid", solid_idx |-> 0, grad_mode |-> "Luma",
         grad_vertical |-> FALSE, checker_cell |-> 8, motion_x |-> 0,
         motion_speed |-> 8, motion_dir |-> 1,
         script |-> create_script, script_idx |-> 0])

\* next_step: ret "true" = should quit, "false" = carry on, "panic" = the
\* index in current_step was out of bounds and the thread unwinds
next_step(st) ==
    LET s1 == [st EXCEPT !.script_idx = @ + 1]
    IN IF s1.script_idx > Len(s1.script)
       THEN [state |-> s1, ret |-> "true"]
       ELSE IF ~in_script(s1)
       THEN [state |-> s1, ret |-> "panic"]
       ELSE [state |-> apply_current_step(s1), ret |-> "false"]

\* previous_step stopping at Step 0 instead of wrapping
previous_step_nowrap(st) ==
    apply_current_step(
        [st EXCEPT !.script_idx = IF @ = 0 THEN 0 ELSE @ - 1])

\* previous_step without its apply_current_step()
previous_step_noapply(st) ==
    [st EXCEPT !.script_idx = (@ + Len(st.script) - 1) % Len(st.script)]

previous_step(st) ==
    apply_current_step(
        [st EXCEPT !.script_idx = (@ + Len(st.script) - 1) % Len(st.script)])

\* KEY_V that also resets the gradient channel
toggle_grad_vertical_and_mode(st) ==
    [st EXCEPT !.grad_vertical = ~@, !.grad_mode = "Luma"]

\* KEY_V
toggle_grad_vertical(st) == [st EXCEPT !.grad_vertical = ~@]

\* a cycle that goes on to 64 before it starts over
next_speed_to_64(v) ==
    CASE v = 1 -> 2
      [] v = 2 -> 4
      [] v = 4 -> 8
      [] v = 8 -> 16
      [] v = 16 -> 32
      [] v = 32 -> 64
      [] OTHER -> 1

\* the match of KEY_M
next_speed(v) ==
    CASE v = 1 -> 2
      [] v = 2 -> 4
      [] v = 4 -> 8
      [] v = 8 -> 16
      [] v = 16 -> 32
      [] OTHER -> 1

\* KEY_M
cycle_motion_speed(st) == [st EXCEPT !.motion_speed = next_speed(@)]

KeyCodes ==
    {"KEY_Q", "KEY_ESC", "KEY_RIGHT", "KEY_SPACE", "KEY_LEFT",
     "KEY_V", "KEY_M", "KEY_P", "KEY_A"}

\* EventSummary::Key(_, code, value): value 1 is a press, 0 a release,
\* 2 an autorepeat
KeyEvents ==
    [code : KeyCodes, value : {1}]
    \cup {[code |-> "KEY_RIGHT", value |-> 0], [code |-> "KEY_Q", value |-> 2]}

\* a keyboard on which Esc is an ordinary key
QuitKeys_q_only == {"KEY_Q"}

\* KeyCode::KEY_Q | KeyCode::KEY_ESC => break 'mainloop
QuitKeys == {"KEY_Q", "KEY_ESC"}

\* the body of `for event in events`: the new AppState, pause and
\* need_redraw, and how the loop goes on ("": next event, "quit"/"end":
\* break 'mainloop, "panic": unwinding)
on_key(st, pz, nr, ev) ==
    LET same == [state |-> st, pause |-> pz, need_redraw |-> nr, exit |-> ""]
    IN IF ev.value # 1 THEN same
       ELSE CASE ev.code \in QuitKeys ->
                   [same EXCEPT !.exit = "quit"]
              [] ev.code \in {"KEY_RIGHT", "KEY_SPACE"} ->
                   LET r == next_step(st)
                   IN IF r.ret = "true"
                      THEN [same EXCEPT !.state = r.state, !.exit = "end"]
                      ELSE IF r.ret = "panic"
                      THEN [same EXCEPT !.state = r.state, !.exit = "panic"]
                      ELSE [same EXCEPT !.state = r.state, !.need_redraw = TRUE]
              [] ev.code = "KEY_LEFT" ->
                   [same EXCEPT !.state = previous_step(st), !.need_redraw = TRUE]
              [] ev.code = "KEY_V" ->
                   [same EXCEPT !.state = toggle_grad_vertical(st),
                                !.need_redraw = TRUE]
              [] ev.code = "KEY_M" ->
                   [same EXCEPT !.state = cycle_motion_speed(st),
                                !.need_redraw = TRUE]
              [] ev.code = "KEY_P" ->
                   [same EXCEPT !.pause = ~pz, !.need_redraw = TRUE]
              [] OTHER -> [same EXCEPT !.need_redraw = TRUE]

\* should_draw of one loop iteration
should_draw(nr, st) == nr \/ st.pattern = "Motion"

\* `as u8`: the low eight bits
as_u8(x) == x % 256

\* a ramp divided by the axis length instead of its last index
grad_raw_by_len(t, len) == (t * 255) \div (IF len > 1 THEN len ELSE 1)

\* (t * 255) / (len - 1).max(1), before the narrowing
grad_raw(t, len) == (t * 255) \div (IF len - 1 > 1 THEN len - 1 ELSE 1)

\* let v = ((t * 255) / (len - 1).max(1)) as u8;
grad_value(t, len) == as_u8(grad_raw(t, len))

\* usize::saturating_sub, usize::min, usize::max
saturating_sub(a, b) == IF a > b THEN a - b ELSE 0
usize_min(a, b) == IF a < b THEN a ELSE b
usize_max(a, b) == IF a > b THEN a ELSE b

\* draw_patches: the value and the half-open pixel ranges of patch i (from 0)
\* of the near-black loop ("black") or of the near-white loop ("white")
patch(kind, i, w, h) ==
    LET colors_area == usize_max(usize_min(w, h) \div 5, 64)
        color_area == colors_area \div 5
    IN IF kind = "black"
       THEN [v |-> 1 + i,
             y0 |-> i * color_area,
             y1 |-> (i + 1) * color_area,
             x0 |-> 0,
             x1 |-> usize_min(colors_area, w)]
       ELSE [v |-> 250 + i,
             y0 |-> saturating_sub(h, colors_area) + i * color_area,
             y1 |-> usize_min((i + 1) + color_area, saturating_sub(h, 1)),
             x0 |-> saturating_sub(w, colors_area),
             x1 |-> w]

\* a bar allowed to stand at x = width before it wraps
motion_advance_past(x, dir, speed, w) ==
    LET nx == x + dir * speed
    IN IF nx < 0 THEN w - 1
       ELSE IF nx > w THEN 0
       ELSE nx

\* the new motion_x of the Motion arm, on a display w pixels wide
motion_advance(x, dir, speed, w) ==
    LET nx == x + dir * speed
    IN IF nx < 0 THEN w - 1
       ELSE IF nx >= w THEN 0
       ELSE nx

\* the state change of rendering: only the Motion arm touches AppState
render(st) ==
    IF st.pattern # "Motion" THEN st
    ELSE [st EXCEPT !.motion_x =
            motion_advance(@, st.motion_dir, st.motion_speed, DispW)]

\* the submit test without `!surface.is_flipping`
submit_unguarded(drawn, s) == drawn

\* `if should_draw && !surface.is_flipping`
submit(drawn, s) == drawn /\ ~s.is_flipping

\* ------------------------------------------------------------------ state
VARIABLES
    surface,      \* Surface.front, Surface.is_flipping
    card,         \* the device: scanout, pending flips, events on the fd
    state,        \* AppState
    pause,        \* main's `pause`
    need_redraw,  \* main's `need_redraw`
    pc,           \* where main (or the caller of the methods) stands
    drm_ready,    \* revents of fds[0] of the last poll
    kb_ready,     \* revents of fds[1] of the last poll
    kb_left,      \* events of the fetched batch not looked at yet
    exit_reason,  \* why main left: "quit", "end", an error text, "panic"
    last_write,   \* the last write_to_back and what the device was doing then
    call,         \* the last call made on the object under test: its name and
                  \* kind, its argument, the cursor and the object before it,
                  \* its result
    prev,         \* the call before it: kind, cursor before it, result
    trace,        \* advance/retreat calls since construction
    mem,          \* the bytes of the two dumb buffers, as map_dumb_buffer
                  \* shows them (followed byte by byte in SpecCopy only; Spec
                  \* follows which frame is written, in last_write)
    probe         \* inputs and results of a raster routine run on its own

vars == <<surface, card, state, pause, need_redraw, pc, drm_ready, kb_ready,
          kb_left, exit_reason, last_write, call, prev, trace, mem, probe>>

NoCall ==
    [op |-> "none", kind |-> "none", arg |-> 0, idx |-> 0, pre |-> <<>>,
     ret |-> "none"]
NoPrev == [kind |-> "none", idx |-> 0, ret |-> "none"]
NoWrite ==
    [frame |-> -1, front |-> -1, scanout |-> -1, asked |-> <<>>,
     flipping |-> FALSE]
Overflow == <<"more">>
NoProbe == [fn |-> "none"]
\* the buffer contents where they are not followed
NoMem == <<>>
\* create_dumb_buffer hands out zeroed memory of pitch * height bytes
ZeroFrame == [i \in 1..(Stride * DispH) |-> 0]

InitAt(start) ==
    /\ surface = Surface_new
    /\ card = Card_new
    /\ state = AppState_new
    /\ pause = FALSE
    /\ need_redraw = TRUE
    /\ pc = start
    /\ drm_ready = FALSE
    /\ kb_ready = FALSE
    /\ kb_left = 0
    /\ exit_reason = ""
    /\ last_write = NoWrite
    /\ call = NoCall
    /\ prev = NoPrev
    /\ trace = <<>>
    /\ probe = NoProbe

\* ------------------------------------------------------------ the device
harness == <<call, prev, trace, probe>>
locals == <<drm_ready, kb_ready, kb_left>>
app == <<state, pause, need_redraw>>

\* main has left its loop: "exit" before the locals are dropped, "done"
\* after, "aborted" when a panic ended the process without unwinding
Stopped == {"exit", "done", "aborted"}

\* a vertical blank with a flip outstanding
HwComplete ==
    /\ pc \notin Stopped
    /\ card.pending # <<>>
    /\ card' = hw_complete(card)
    /\ UNCHANGED <<surface, app, pc, locals, exit_reason, last_write, mem, harness>>

\* an event arrives on the DRM fd
DrmEnqueue(e) ==
    /\ pc \notin Stopped
    /\ Len(card.events) < MaxDrmQ
    /\ card' = [card EXCEPT !.events = Append(@, e)]
    /\ UNCHANGED <<surface, app, pc, locals, exit_reason, last_write, mem, harness>>

HwOther == DrmEnqueue("Vblank")

\* ----------------------------------------------------------------- main()
Leave(why) == pc' = "exit" /\ exit_reason' = why

Snapshot(frame) ==
    [frame |-> frame, front |-> surface.front, scanout |-> card.scanout,
     asked |-> card.pending, flipping |-> surface.is_flipping]

\* let mut kb = open_keyboard()?;
MainOpenKeyboard ==
    /\ pc = "open_keyboard"
    /\ \E found \in BOOLEAN :
          IF found THEN pc' = "init_write" /\ UNCHANGED exit_reason
          ELSE Leave("can't find device")
    /\ UNCHANGED <<surface, card, app, locals, last_write, mem, harness>>

\* surface.write_to_back(&stage)?; before the loop and inside it
MainWrite ==
    /\ pc \in {"init_write", "write"}
    /\ \E map_ok \in BOOLEAN :
          LET r == write_to_back(surface, DispH * Stride, map_ok)
          IN IF r.ret = "ok"
             THEN /\ last_write' = Snapshot(r.frame)
                  /\ pc' = IF pc = "init_write" THEN "init_flip" ELSE "flip"
                  /\ UNCHANGED exit_reason
             ELSE Leave(r.ret) /\ UNCHANGED last_write
    /\ UNCHANGED <<surface, card, app, locals, mem, harness>>

\* surface.flip()?; before the loop, and with need_redraw = false inside it
MainFlip ==
    /\ pc \in {"init_flip", "flip"}
    /\ \E dev_ok \in DevAnswers(card) :
          LET r == flip(surface, card, dev_ok)
          IN IF r.ret = "ok"
             THEN /\ surface' = r.surface
                  /\ card' = r.card
                  /\ need_redraw' = IF pc = "flip" THEN FALSE ELSE need_redraw
                  /\ pc' = "poll"
                  /\ UNCHANGED exit_reason
             ELSE Leave(r.ret) /\ UNCHANGED <<surface, card, need_redraw>>
    /\ UNCHANGED <<state, pause, locals, last_write, mem, harness>>

\* poll(&mut fds, 30)?: returns on readiness or on the timeout
MainPoll ==
    /\ pc = "poll"
    /\ \/ /\ Leave("poll failed")
          /\ UNCHANGED locals
       \/ /\ drm_ready' = (card.events # <<>>)
          /\ kb_ready' \in BOOLEAN
          /\ pc' = "drm"
          /\ UNCHANGED <<kb_left, exit_reason>>
    /\ UNCHANGED <<surface, card, app, last_write, mem, harness>>

\* if drm_ready { surface.handle_drm_events()?; }
MainDrm ==
    /\ pc = "drm"
    /\ IF drm_ready
       THEN \E read_ok \in BOOLEAN :
               LET r == handle_drm_events(surface, card, read_ok)
               IN IF r.ret = "err"
                  THEN Leave("receive_events failed") /\ UNCHANGED <<surface, card>>
                  ELSE /\ surface' = r.surface
                       /\ card' = r.card
                       /\ pc' = "kb"
                       /\ UNCHANGED exit_reason
       ELSE pc' = "kb" /\ UNCHANGED <<surface, card, exit_reason>>
    /\ drm_ready' = FALSE
    /\ UNCHANGED <<app, kb_ready, kb_left, last_write, mem, harness>>

\* if kb_ready { if let Ok(events) = kb.fetch_events() { ... } }
MainKbFetch ==
    /\ pc = "kb"
    /\ IF kb_ready
       THEN \/ pc' = "tick" /\ UNCHANGED kb_left
            \/ \E n \in 1..MaxBatch : kb_left' = n /\ pc' = "kbloop"
       ELSE pc' = "tick" /\ UNCHANGED kb_left
    /\ kb_ready' = FALSE
    /\ UNCHANGED <<surface, card, app, drm_ready, exit_reason, last_write, mem, harness>>

\* one turn of `for event in events`, the event being ev
MainKbEventOn(ev) ==
    /\ pc = "kbloop"
    /\ LET r == on_key(state, pause, need_redraw, ev)
       IN /\ state' = r.state
          /\ pause' = r.pause
          /\ need_redraw' = r.need_redraw
          /\ IF r.exit # ""
             THEN Leave(r.exit) /\ kb_left' = 0
             ELSE /\ kb_left' = kb_left - 1
                  /\ pc' = IF kb_left = 1 THEN "tick" ELSE "kbloop"
                  /\ UNCHANGED exit_reason
    /\ UNCHANGED <<surface, card, drm_ready, kb_ready, last_write, mem, harness>>

MainKbEvent == \E ev \in KeyEvents : MainKbEventOn(ev)

\* an iteration that takes the flag down as soon as the stage is rendered
MainTick_render_clears ==
    /\ pc = "tick"
    /\ IF pause
       THEN pc' = "poll" /\ UNCHANGED <<state, need_redraw>>
       ELSE LET drawn == should_draw(need_redraw, state)
            IN /\ state' = IF drawn THEN render(state) ELSE state
               /\ need_redraw' = IF drawn THEN FALSE ELSE need_redraw
               /\ pc' = IF submit(drawn, surface) THEN "write" ELSE "poll"
    /\ UNCHANGED <<surface, card, pause, locals, exit_reason,
                   last_write, mem, harness>>

\* an iteration that tests the pause flag only after rendering
MainTick_pause_after_render ==
    /\ pc = "tick"
    /\ LET drawn == should_draw(need_redraw, state)
       IN /\ state' = IF drawn THEN render(state) ELSE state
          /\ pc' = IF ~pause /\ submit(drawn, surface) THEN "write" ELSE "poll"
    /\ UNCHANGED <<surface, card, pause, need_redraw, locals, exit_reason,
                   last_write, mem, harness>>

\* from `if pause { continue; }` to the test before write_to_back
MainTick ==
    /\ pc = "tick"
    /\ IF pause
       THEN pc' = "poll" /\ UNCHANGED state
       ELSE LET drawn == should_draw(need_redraw, state)
            IN /\ state' = IF drawn THEN render(state) ELSE state
               /\ pc' = IF submit(drawn, surface) THEN "write" ELSE "poll"
    /\ UNCHANGED <<surface, card, pause, need_redraw, locals, exit_reason,
                   last_write, mem, harness>>

\* main returns (or unwinds): its locals go out of scope in reverse order of
\* declaration, so pause, need_redraw and the AppState are gone by the time
\* `surface`, declared first, is dropped. A panic unwinds and drops too,
\* unless the build aborts on panic.
MainDrop ==
    /\ pc = "exit"
    /\ \/ /\ \E oks \in [1..5 -> BOOLEAN] : card' = drop_surface(card, oks)
          /\ pc' = "done"
       \/ /\ exit_reason = "panic"
          /\ pc' = "aborted"
          /\ UNCHANGED card
    /\ state' = "dropped"
    /\ pause' = FALSE
    /\ need_redraw' = FALSE
    /\ UNCHANGED <<surface, locals, exit_reason, last_write, mem, harness>>

Init == InitAt("open_keyboard") /\ mem = NoMem

Next ==
    \/ MainOpenKeyboard
    \/ MainWrite
    \/ MainFlip
    \/ MainPoll
    \/ MainDrm
    \/ MainKbFetch
    \/ MainKbEvent
    \/ MainTick
    \/ MainDrop
    \/ HwComplete
    \/ HwOther

Spec == Init /\ [][Next]_vars

\* ------------------------------------------- the Surface, called directly
Called(op, kind, arg, pre, ret) ==
    /\ call' = [op |-> op, kind |-> kind, arg |-> arg, idx |-> state.script_idx,
                pre |-> pre, ret |-> ret]
    /\ prev' = [kind |-> call.kind, idx |-> call.idx, ret |-> call.ret]
    /\ UNCHANGED probe

SurfFlip ==
    /\ pc = "api"
    /\ \E dev_ok \in DevAnswers(card) :
          LET r == flip(surface, card, dev_ok)
          IN /\ surface' = r.surface
             /\ card' = r.card
             /\ Called("flip", "flip", IF dev_ok THEN 1 ELSE 0,
                       [surface |-> surface, card |-> card], r.ret)
    /\ UNCHANGED <<app, pc, locals, exit_reason, last_write, mem, trace>>

\* receive_events() blocks on an empty fd, so the call returns only when
\* something is queued
SurfHandleDrmEvents ==
    /\ pc = "api"
    /\ card.events # <<>>
    /\ \E read_ok \in BOOLEAN :
          LET r == handle_drm_events(surface, card, read_ok)
          IN /\ surface' = r.surface
             /\ card' = r.card
             /\ Called("handle_drm_events", "handle_drm_events",
                       IF read_ok THEN 1 ELSE 0,
                       [surface |-> surface, card |-> card], r.ret)
    /\ UNCHANGED <<app, pc, locals, exit_reason, last_write, mem, trace>>

SurfEnqueue == \E e \in DrmEvents : DrmEnqueue(e)

InitSurface == InitAt("api") /\ mem = NoMem

NextSurface ==
    \/ SurfFlip
    \/ SurfHandleDrmEvents
    \/ SurfEnqueue
    \/ HwComplete

SpecSurface == InitSurface /\ [][NextSurface]_vars

\* ------------------------------------ write_to_back, followed byte by byte
\* staging slices: three fills, and lengths around stride * height
SrcFill(kind, i) ==
    CASE kind = "ff" -> 255
      [] kind = "ramp" -> (7 * i) % 256
      [] OTHER -> 0

SrcLens ==
    {0, Stride * DispH - Stride, Stride * DispH - 1, Stride * DispH,
     Stride * DispH + 1, Stride * DispH + Stride}

SrcBuffers ==
    {[i \in 1..n |-> SrcFill(kind, i)] : n \in SrcLens, kind \in {"ff", "ramp", "zero"}}

CopyWriteToBack ==
    /\ pc = "api"
    /\ \E src \in SrcBuffers, map_ok \in BOOLEAN :
          LET r == write_to_back(surface, Len(src), map_ok)
              c == IF r.ret = "ok"
                   THEN copy_rows(mem[r.frame + 1], src, 0, DispH)
                   ELSE [map |-> <<>>, ret |-> r.ret]
          IN /\ mem' = IF r.ret = "ok"
                       THEN [mem EXCEPT ![r.frame + 1] = c.map]
                       ELSE mem
             /\ Called("write_to_back", "write_to_back", src,
                       [surface |-> surface, mem |-> mem], c.ret)
             /\ IF c.ret = "panic" THEN Leave("panic")
                ELSE UNCHANGED <<pc, exit_reason>>
    /\ UNCHANGED <<surface, card, app, locals, last_write, trace>>

NextCopy ==
    \/ CopyWriteToBack
    \/ SurfFlip
    \/ SurfHandleDrmEvents
    \/ HwComplete

InitCopy == InitAt("api") /\ mem = <<ZeroFrame, ZeroFrame>>

SpecCopy == InitCopy /\ [][NextCopy]_vars

\* ----------------------------------------- the sequencer, driven directly
Nav(ev) ==
    IF ev.value # 1 THEN "other"
    ELSE IF ev.code \in {"KEY_RIGHT", "KEY_SPACE"} THEN "next"
    ELSE IF ev.code = "KEY_LEFT" THEN "prev"
    ELSE "other"

Traced(op) ==
    trace' = IF trace = Overflow \/ op = "other" \/ Len(trace) >= MaxTrace
             THEN Overflow
             ELSE Append(trace, op)

SeqKey ==
    /\ pc = "seq"
    /\ \E ev \in KeyEvents :
          LET r == on_key(state, pause, need_redraw, ev)
          IN /\ state' = r.state
             /\ pause' = r.pause
             /\ need_redraw' = r.need_redraw
             /\ Called(ev.code, Nav(ev), ev.value,
                       [state |-> state, pause |-> pause,
                        need_redraw |-> need_redraw], r.exit)
             /\ Traced(Nav(ev))
             /\ IF r.exit # "" THEN Leave(r.exit)
                ELSE UNCHANGED <<pc, exit_reason>>
    /\ UNCHANGED <<surface, card, locals, last_write, mem>>

SeqTick ==
    /\ pc = "seq"
    /\ LET drawn == ~pause /\ should_draw(need_redraw, state)
       IN /\ state' = IF drawn THEN render(state) ELSE state
          /\ Called("tick", "other", 0,
                    [state |-> state, pause |-> pause,
                     need_redraw |-> need_redraw],
                    IF drawn THEN "drawn" ELSE "idle")
    /\ Traced("other")
    /\ UNCHANGED <<surface, card, pause, need_redraw, pc, locals, exit_reason,
                   last_write, mem>>

InitSeq == InitAt("seq") /\ mem = NoMem

NextSeq == SeqKey \/ SeqTick

SpecSeq == InitSeq /\ [][NextSeq]_vars

\* ------------------------------------------- the Motion arm, tick by tick
MaxTicks == 48

\* the speeds the M key cycles through
MotionSpeeds == {1, 2, 4, 8, 16, 32}

\* display widths: the model's, and two modes of real panels
MotionWidths == {DispW, 320, 1366}

InitProbe == InitAt("probe") /\ mem = NoMem

\* a Motion step entered with motion_x = 0 and motion_dir = 1
MotionStart ==
    /\ pc = "probe"
    /\ probe = NoProbe
    /\ \E w \in MotionWidths, s \in MotionSpeeds :
          probe' = [fn |-> "motion", w |-> w, s |-> s, n |-> 0,
                    x |-> AppState_new.motion_x]
    /\ UNCHANGED <<surface, card, app, pc, locals, exit_reason, last_write,
                   mem, call, prev, trace>>

\* one redraw of the Motion arm
MotionTick ==
    /\ pc = "probe"
    /\ probe.fn = "motion"
    /\ probe.n < MaxTicks
    /\ probe' = [probe EXCEPT
                   !.n = @ + 1,
                   !.x = motion_advance(@, AppState_new.motion_dir,
                                        probe.s, probe.w)]
    /\ UNCHANGED <<surface, card, app, pc, locals, exit_reason, last_write,
                   mem, call, prev, trace>>

NextMotion == MotionStart \/ MotionTick

SpecMotion == InitProbe /\ [][NextMotion]_vars

\* ------------------------------------- draw_gradient, along its ramp axis
MaxAxis == 24

\* axis lengths: every small one, and the lengths around 256 and of a panel
GradLens == (2..MaxAxis) \cup {255, 256, 257, 1920}

\* the first pixel of the axis: t = 0
GradientStart ==
    /\ pc = "probe"
    /\ probe = NoProbe
    /\ \E len \in GradLens :
          probe' = [fn |-> "gradient", len |-> len, p |-> 0,
                    raw |-> grad_raw(0, len), v |-> grad_value(0, len),
                    vprev |-> 0]
    /\ UNCHANGED <<surface, card, app, pc, locals, exit_reason, last_write,
                   mem, call, prev, trace>>

\* the next pixel along the axis
GradientStep ==
    /\ pc = "probe"
    /\ probe.fn = "gradient"
    /\ probe.p + 1 < probe.len
    /\ probe' = [probe EXCEPT
                   !.p = @ + 1,
                   !.raw = grad_raw(probe.p + 1, probe.len),
                   !.v = grad_value(probe.p + 1, probe.len),
                   !.vprev = probe.v]
    /\ UNCHANGED <<surface, card, app, pc, locals, exit_reason, last_write,
                   mem, call, prev, trace>>

NextGradient == GradientStart \/ GradientStep

SpecGradient == InitProbe /\ [][NextGradient]_vars

\* --------------------------------------------- draw_patches, patch by patch
\* sides of displays no smaller than the 64 pixel patch area
PatchSides == {64, 65, 100, 320, 480, 768, 1080, 1920}

\* the first turn of the near-black loop
PatchesStart ==
    /\ pc = "probe"
    /\ probe = NoProbe
    /\ \E w \in PatchSides, h \in PatchSides :
          probe' = [fn |-> "patches", w |-> w, h |-> h, kind |-> "black",
                    i |-> 0, rect |-> patch("black", 0, w, h)]
    /\ UNCHANGED <<surface, card, app, pc, locals, exit_reason, last_write,
                   mem, call, prev, trace>>

\* the next turn of the loop, the near-white loop following the near-black
PatchesNext ==
    /\ pc = "probe"
    /\ probe.fn = "patches"
    /\ ~(probe.kind = "white" /\ probe.i = 4)
    /\ LET kind == IF probe.i = 4 THEN "white" ELSE probe.kind
           i == IF probe.i = 4 THEN 0 ELSE probe.i + 1
       IN probe' = [probe EXCEPT !.kind = kind, !.i = i,
                                 !.rect = patch(kind, i, probe.w, probe.h)]
    /\ UNCHANGED <<surface, card, app, pc, locals, exit_reason, last_write,
                   mem, call, prev, trace>>

NextPatches == PatchesStart \/ PatchesNext

SpecPatches == InitProbe /\ [][NextPatches]_vars

\* ------------------------------------------ Surface::open_default, by step
MaxConn == 2

\* what the device answers about one connector: get_connector's result, its
\* state and whether it lists a mode, its current encoder (none, one that
\* get_encoder fails on, or a good one) and whether that encoder has a CRTC
ConnectorInfos ==
    [get_ok : BOOLEAN, connected : BOOLEAN, modes : BOOLEAN,
     enc : {"none", "bad", "ok"}, crtc : BOOLEAN]

ConnectorLists ==
    UNION {[1..n -> ConnectorInfos] : n \in 0..MaxConn}

\* the device right after Card::open_default: no Frame made, CRTC not set
Card_opened ==
    [Card_new EXCEPT !.scanout = -1, !.fbs = {}, !.dbs = {}]

\* `for &con in res.connectors()` and the ok_or_else after it
RECURSIVE select_connector(_)
select_connector(cons) ==
    IF cons = <<>> THEN "no connected display"
    ELSE LET info == Head(cons)
         IN IF ~info.get_ok THEN "get_connector failed"
            ELSE IF ~info.connected \/ ~info.modes
            THEN select_connector(Tail(cons))
            ELSE IF info.enc = "none" THEN "no current encoder"
            ELSE IF info.enc = "bad" THEN "get_encoder failed"
            ELSE IF ~info.crtc THEN "no crtc"
            ELSE "ok"

\* an Err leaves open_default through `?`: no Surface exists, so no Drop for
\* Surface runs, and Frame and DumbBuffer have no Drop of their own; no
\* request goes to the device
OpenFail(why) ==
    /\ pc' = "open_failed"
    /\ exit_reason' = why
    /\ UNCHANGED card

OpenRest == <<surface, app, locals, last_write, mem, call, prev, trace>>

\* resource_handles() and the choice of connector, CRTC and mode
OpenDiscover ==
    /\ pc = "probe"
    /\ probe = NoProbe
    /\ \E res_ok \in BOOLEAN, cons \in ConnectorLists :
          LET r == IF res_ok THEN select_connector(cons)
                   ELSE "could not load resource handles"
          IN /\ probe' = [fn |-> "open", res_ok |-> res_ok, cons |-> cons]
             /\ pc' = IF r = "ok" THEN "make_db0" ELSE "open_failed"
             /\ exit_reason' = IF r = "ok" THEN "" ELSE r
             /\ card' = Card_opened
    /\ UNCHANGED OpenRest

\* make_frame: card.create_dumb_buffer(..)?
OpenCreateDumbBuffer(f) ==
    /\ pc = IF f = 0 THEN "make_db0" ELSE "make_db1"
    /\ \E dev_ok \in BOOLEAN :
          IF dev_ok
          THEN /\ card' = [card EXCEPT !.dbs = @ \cup {f}]
               /\ pc' = IF f = 0 THEN "make_fb0" ELSE "make_fb1"
               /\ UNCHANGED exit_reason
          ELSE OpenFail("create_dumb_buffer failed")
    /\ UNCHANGED <<OpenRest, probe>>

\* make_frame: card.add_framebuffer(&db, 24, 32)?
OpenAddFramebuffer(f) ==
    /\ pc = IF f = 0 THEN "make_fb0" ELSE "make_fb1"
    /\ \E dev_ok \in BOOLEAN :
          IF dev_ok
          THEN /\ card' = [card EXCEPT !.fbs = @ \cup {f}]
               /\ pc' = IF f = 0 THEN "make_db1" ELSE "set_crtc"
               /\ UNCHANGED exit_reason
          ELSE OpenFail("add_framebuffer failed")
    /\ UNCHANGED <<OpenRest, probe>>

\* card.set_crtc(crtc, Some(f0.fb), ..).context("failed to set crtc")?
OpenSetCrtc ==
    /\ pc = "set_crtc"
    /\ \E dev_ok \in BOOLEAN :
          IF dev_ok
          THEN /\ card' = [card EXCEPT !.scanout = 0]
               /\ pc' = "opened"
               /\ UNCHANGED exit_reason
          ELSE OpenFail("failed to set crtc")
    /\ UNCHANGED <<OpenRest, probe>>

NextOpen ==
    \/ OpenDiscover
    \/ \E f \in {0, 1} : OpenCreateDumbBuffer(f) \/ OpenAddFramebuffer(f)
    \/ OpenSetCrtc

SpecOpen == InitProbe /\ [][NextOpen]_vars

\* ----------------------------------------------------------------- claims
HasPageFlip(evs) == \E i \in 1..Len(evs) : evs[i] = "PageFlip"

\* C1: on a freshly constructed Surface the first flip() succeeds and sets
\* pending; a flip() made while a flip is pending fails with "flip already
\* pending" and leaves front and pending as they were; a flip() made when none
\* is pending (the first one, or the one after handle_drm_events absorbed a
\* completion) succeeds whenever the device accepts the page flip.
C1_FlipRejectedWhilePending ==
    call.op = "flip" =>
        /\ call.pre.surface.is_flipping =>
              /\ call.ret = "flip already pending"
              /\ surface = call.pre.surface
        /\ call.ret = "flip already pending" => call.pre.surface.is_flipping
        /\ (~call.pre.surface.is_flipping /\ call.arg = 1) =>
              /\ call.ret = "ok"
              /\ surface.is_flipping
              /\ surface.front = call.pre.surface.front
        /\ (prev.kind = "none" /\ call.arg = 1) =>
              call.ret = "ok" /\ surface = [front |-> 0, is_flipping |-> TRUE]
        /\ (prev.kind = "handle_drm_events" /\ prev.ret = "true" /\ call.arg = 1) =>
              call.ret = "ok"

\* a second flip() right after a successful one, no completion in between
C1_Witness ==
    /\ call.op = "flip"
    /\ call.ret = "flip already pending"
    /\ prev.kind = "flip"
    /\ prev.ret = "ok"

\* C2: every write_to_back of main happens with no flip pending, into frame
\* 1 - front, which is neither the frame the CRTC scans out nor a frame an
\* accepted page flip has asked it to scan out.
C2_WriteAvoidsScanout ==
    last_write # NoWrite =>
        /\ ~last_write.flipping
        /\ last_write.frame = 1 - last_write.front
        /\ last_write.frame # last_write.scanout
        /\ \A i \in 1..Len(last_write.asked) :
              last_write.asked[i] # last_write.frame

\* a write inside the loop, after the first flip completed: frame 0 is back
C2_Witness ==
    /\ last_write.frame = 0
    /\ last_write.scanout = 1
    /\ pc = "flip"

\* C3: main never has more than one accepted page flip outstanding at the
\* device, and none of its flip() calls fails with "flip already pending".
C3_OneFlipOutstanding ==
    /\ Len(card.pending) <= 1
    /\ exit_reason # "flip already pending"

\* the second flip of a run is outstanding: frame 0 asked for, frame 1 shown
C3_Witness ==
    /\ pc = "poll"
    /\ card.pending = <<0>>
    /\ card.scanout = 1
    /\ surface.is_flipping

\* C4: handle_drm_events that read its events with a flip pending and a
\* PageFlip among them sets front to the old back, clears pending and returns
\* true; with no flip pending, or no PageFlip among the events, it changes
\* nothing and returns false. front is 0 or 1 and back is the other one.
C4_CompletionSwapsOnce ==
    /\ surface.front \in {0, 1}
    /\ back(surface) \in {0, 1} \ {surface.front}
    /\ (call.op = "handle_drm_events" /\ call.arg = 1) =>
          IF call.pre.surface.is_flipping /\ HasPageFlip(call.pre.card.events)
          THEN /\ call.ret = "true"
               /\ surface.front = 1 - call.pre.surface.front
               /\ ~surface.is_flipping
          ELSE /\ call.ret = "false"
               /\ surface = call.pre.surface

\* a completion absorbed from a batch that also holds another event
C4_Witness ==
    /\ call.op = "handle_drm_events"
    /\ call.ret = "true"
    /\ Len(call.pre.card.events) >= 2
    /\ surface.front = 1

LastIdx(st) == Len(st.script) - 1

\* C5: an advance moves the cursor forward by one; on the last Step it
\* signals end instead; it never indexes the script out of bounds.
C5_AdvanceEndsAtLastStep ==
    (call.kind = "next") =>
        /\ call.ret # "panic"
        /\ call.idx = LastIdx(state) => call.ret = "end"
        /\ call.idx < LastIdx(state) =>
              call.ret = "" /\ state.script_idx = call.idx + 1

\* C6: a retreat moves the cursor back by one, from Step 0 to the last Step
\* (Viewing); the cursor is a valid index afterwards.
C6_RetreatWraps ==
    (call.kind = "prev") =>
        /\ state.script_idx =
              IF call.idx = 0 THEN LastIdx(state) ELSE call.idx - 1
        /\ state.script_idx \in 0..LastIdx(state)
        /\ call.idx = 0 => state.pattern = "Viewing"

\* a retreat from Step 0
C6_Witness ==
    /\ call.kind = "prev"
    /\ call.idx = 0
    /\ state.script_idx = 19

\* the working parameters are those of the script Step under the cursor
WorkingMatchesScript(st) ==
    LET step == st.script[st.script_idx + 1]
    IN /\ st.pattern = step.pat
       /\ st.solid_idx = step.solid_idx
       /\ st.grad_mode = step.grad_mode
       /\ st.grad_vertical = step.grad_vertical
       /\ st.checker_cell = step.checker_cell
       /\ st.motion_speed = step.motion_speed

\* C7: after construction, advance x3 then retreat gives the AppState of
\* advance x2 (cursor 2, the blue Solid step); and a retreat right after an
\* advance that did not start on the last Step puts the cursor back where
\* it was, with the working parameters of that Step.
C7_AdvanceRetreatRoundTrip ==
    /\ trace = <<"next", "next", "next", "prev">> =>
          /\ state = next_step(next_step(AppState_new).state).state
          /\ state.script_idx = 2
          /\ state.pattern = "Solid" /\ state.solid_idx = 2
    /\ (call.kind = "prev" /\ prev.kind = "next" /\ prev.ret = "") =>
          /\ state.script_idx = prev.idx
          /\ WorkingMatchesScript(state)

\* three advances and a retreat, from construction
C7_Witness ==
    /\ trace = <<"next", "next", "next", "prev">>
    /\ call.kind = "prev"
    /\ prev.kind = "next"

Pressed(code) == call.op = code /\ call.arg = 1

\* C8 as claimed: a press of V or M leaves cursor and script alone and
\* changes nothing but a parameter of the pattern family that is active, so
\* nothing at all when the active pattern is not Gradient (V) or Motion (M).
C8_TogglesTouchActiveFamilyOnly ==
    /\ Pressed("KEY_V") =>
          /\ state.script_idx = call.idx
          /\ state.script = call.pre.state.script
          /\ call.pre.state.pattern # "Gradient" => state = call.pre.state
    /\ Pressed("KEY_M") =>
          /\ state.script_idx = call.idx
          /\ state.script = call.pre.state.script
          /\ call.pre.state.pattern # "Motion" => state = call.pre.state

\* C8 as amended: a press of V changes grad_vertical and nothing else of
\* AppState, a press of M changes motion_speed (doubling up to 32, then 1)
\* and nothing else, whatever pattern is active; cursor and script stay; and
\* anything that is not an advance, a retreat or a press of the same key
\* keeps the toggled value.
C8_TogglesTouchOneParameter ==
    /\ Pressed("KEY_V") =>
          state = [call.pre.state EXCEPT !.grad_vertical = ~@]
    /\ Pressed("KEY_M") =>
          /\ \E v \in {1, 2, 4, 8, 16, 32} :
                state = [call.pre.state EXCEPT !.motion_speed = v]
          /\ state.motion_speed =
                IF call.pre.state.motion_speed \in {1, 2, 4, 8, 16}
                THEN 2 * call.pre.state.motion_speed
                ELSE 1
    /\ (call.kind = "other" /\ ~Pressed("KEY_V")) =>
          state.grad_vertical = call.pre.state.grad_vertical
    /\ (call.kind = "other" /\ ~Pressed("KEY_M")) =>
          state.motion_speed = call.pre.state.motion_speed
    /\ call.kind = "other" =>
          /\ state.script_idx = call.idx
          /\ state.script = call.pre.state.script

\* V pressed on a Solid step: the gradient axis flips all the same
C8_Witness ==
    /\ Pressed("KEY_V")
    /\ call.pre.state.pattern = "Solid"
    /\ state.grad_vertical
    /\ ~call.pre.state.grad_vertical

\* C9: after construction and after every advance or retreat that returned
\* without signalling end, the working parameters are those of the script
\* Step under the cursor, motion_x is 0 and motion_dir is +1.
C9_StepParametersCanonical ==
    (call.kind = "none" \/ (call.kind \in {"next", "prev"} /\ call.ret = "")) =>
        /\ state.script_idx \in 0..LastIdx(state)
        /\ WorkingMatchesScript(state)
        /\ state.motion_x = 0
        /\ state.motion_dir = 1

\* an advance from a Motion step whose bar had moved and whose axis and
\* speed had been toggled
C9_Witness ==
    /\ call.kind = "next"
    /\ call.ret = ""
    /\ call.pre.state.pattern = "Motion"
    /\ call.pre.state.motion_x > 0
    /\ call.pre.state.grad_vertical
    /\ call.pre.state.motion_speed = 1

\* C10: a failed poll or a failed read of the DRM events does not make main
\* leave its loop.
C10_ReadFailureKeepsLoop ==
    pc = "exit" => exit_reason \notin {"poll failed", "receive_events failed"}

\* the five requests of a complete teardown, in the order of drop
TeardownCalls ==
    << <<"set_crtc_none", -1>>,
       <<"destroy_framebuffer", 0>>, <<"destroy_dumb_buffer", 0>>,
       <<"destroy_framebuffer", 1>>, <<"destroy_dumb_buffer", 1>> >>

\* C11: whatever made main return (quit, a failed write_to_back, flip, event
\* read, poll or keyboard opening), the Surface is dropped: the device gets
\* the CRTC unset first, then for frame 0 and frame 1 the framebuffer and the
\* dumb buffer release, all five whether or not earlier ones failed; nothing
\* is torn down before main has left its loop.
C11_TeardownOnEveryExit ==
    /\ (pc = "exit" /\ exit_reason # "panic") => ENABLED MainDrop
    /\ pc = "done" => card.log = TeardownCalls
    /\ pc # "done" => (card.log = <<>> /\ card.fbs = {0, 1} /\ card.dbs = {0, 1})
    /\ pc = "aborted" => exit_reason = "panic"

\* main left on a failed event read; the release of frame 0's framebuffer
\* failed and frame 1 was released all the same
C11_Witness ==
    /\ pc = "done"
    /\ exit_reason = "receive_events failed"
    /\ card.fbs = {0}
    /\ card.dbs = {}
    /\ card.scanout = -1

\* C12: write_to_back given fewer than stride * height bytes fails with
\* "source buffer too small" (and only then), and neither dumb buffer, nor
\* front, nor the pending flag changes.
C12_ShortSourceRejected ==
    (call.op = "write_to_back") =>
        /\ Len(call.arg) < Stride * DispH =>
              /\ call.ret = "source buffer too small"
              /\ mem = call.pre.mem
              /\ surface = call.pre.surface
        /\ call.ret = "source buffer too small" => Len(call.arg) < Stride * DispH

\* a slice one byte short, full of 0xFF, refused with frame 1 in front
C12_Witness ==
    /\ call.op = "write_to_back"
    /\ Len(call.arg) = Stride * DispH - 1
    /\ call.arg[1] = 255
    /\ call.ret = "source buffer too small"
    /\ surface.front = 1

\* C13: after a successful write_to_back the first stride * height bytes of
\* the back frame are those of the staging slice (all 0xFF for a slice of
\* 0xFF) and the front frame's bytes are as before.
C13_BackFrameHoldsSource ==
    (call.op = "write_to_back" /\ call.ret = "ok") =>
        LET f == call.pre.surface.front
            b == 1 - f
        IN /\ \A i \in 1..(Stride * DispH) : mem[b + 1][i] = call.arg[i]
           /\ (\A i \in 1..Len(call.arg) : call.arg[i] = 255) =>
                 (\A i \in 1..Len(mem[b + 1]) : mem[b + 1][i] = 255)
           /\ mem[f + 1] = call.pre.mem[f + 1]
           /\ surface = call.pre.surface

\* a ramp longer than the frame copied into frame 0 while frame 1, holding
\* 0xFF from an earlier write, is in front
C13_Witness ==
    /\ call.op = "write_to_back"
    /\ call.ret = "ok"
    /\ call.pre.surface.front = 1
    /\ Len(call.arg) > Stride * DispH
    /\ mem[1][2] = 14
    /\ mem[2][2] = 255

\* C14: need_redraw goes from true to false only in the step where flip()
\* succeeds right after write_to_back copied the stage into the back frame;
\* and an iteration that finds the flag set while paused or while a flip is
\* pending goes back to poll with the flag set and nothing written or asked
\* of the device. (The flag going out of scope when main returns is no
\* clearing.)
C14_FlagClearedOnlyBySubmit ==
    [][/\ (need_redraw /\ ~need_redraw' /\ pc # "exit") =>
             /\ pc = "flip"
             /\ pc' = "poll"
             /\ last_write.frame = back(surface)
             /\ last_write.front = surface.front
             /\ ~surface.is_flipping
             /\ surface' = [surface EXCEPT !.is_flipping = TRUE]
             /\ card'.pending = Append(card.pending, back(surface))
       /\ (pc = "tick" /\ pc' # "tick" /\ need_redraw
              /\ (pause \/ surface.is_flipping)) =>
             /\ pc' = "poll"
             /\ need_redraw'
             /\ UNCHANGED <<surface, card, last_write>>
      ]_vars

\* the flag is down after the loop's own submit of a redraw asked for by a
\* key: frame 0 written, its flip pending, the cursor moved off step 0
C14_Witness ==
    /\ pc = "poll"
    /\ ~need_redraw
    /\ surface.is_flipping
    /\ last_write.frame = 0
    /\ card.pending = <<0>>
    /\ state.script_idx = 1

\* C15 (as a finite run): a redraw that a key press asked for while a flip
\* was pending is not lost to the absorption of events: with the loop not
\* paused and no quit or end, main does not stop on a failed poll or a failed
\* read of the DRM events while that redraw still waits, so the iteration
\* after the completion can render and submit it.
C15_WaitingRedrawNotAbandoned ==
    (/\ pc = "exit"
     /\ need_redraw
     /\ ~pause
     /\ surface.is_flipping
     /\ state.script_idx # 0)
        => exit_reason \notin {"poll failed", "receive_events failed"}

\* C16: whenever the loop is about to look at an event of a batch and that
\* event is a press of Q or Esc, whatever the pause flag and the pending
\* flag are, looking at it takes main out of the loop with the rest of the
\* batch dropped and nothing else changed; an advance that returns true
\* breaks out the same way; and once out of the loop the only step main
\* takes is the teardown: no render, write_to_back or flip comes before it.
C16_QuitEndsLoopAtOnce ==
    /\ pc = "kbloop" =>
          /\ \A code \in {"KEY_Q", "KEY_ESC"} :
                ENABLED (/\ MainKbEventOn([code |-> code, value |-> 1])
                         /\ pc' = "exit"
                         /\ exit_reason' = "quit"
                         /\ kb_left' = 0
                         /\ UNCHANGED <<state, pause, need_redraw, surface,
                                        card, last_write>>)
          /\ \A code \in {"KEY_RIGHT", "KEY_SPACE"} :
                on_key([state EXCEPT !.script_idx = Len(state.script)],
                       pause, need_redraw,
                       [code |-> code, value |-> 1]).exit = "end"
    /\ pc = "exit" =>
          ~ENABLED (/\ Next
                    /\ ~(/\ pc' \in {"done", "aborted"}
                         /\ UNCHANGED <<surface, last_write, exit_reason>>
                         /\ card'.pending = card.pending))

\* main has left on a quit key that it looked at while paused, with a flip
\* pending and a redraw waiting; the teardown is next
C16_Witness ==
    /\ pc = "exit"
    /\ exit_reason = "quit"
    /\ kb_left = 0
    /\ pause
    /\ need_redraw
    /\ surface.is_flipping
    /\ card.pending # <<>>

\* C17 as claimed: n redraws after a Motion step started at 0 with direction
\* +1, the position is (s * n) mod W.
C17_PositionIsProductModWidth ==
    probe.fn = "motion" => probe.x = (probe.s * probe.n) % probe.w

\* the number of redraws after which the bar is back at 0
MotionPeriod(w, s) == (w + s - 1) \div s

\* C17, amended: the position climbs by s per redraw and the redraw that
\* would reach or pass W sets it to 0, so after n redraws it is
\* s * (n mod ceil(W / s)); that is (s * n) mod W when s divides W, and 0 for
\* W = 320, s = 8, n = 40.
C17_PositionRestartsAtZero ==
    probe.fn = "motion" =>
        /\ probe.x = probe.s * (probe.n % MotionPeriod(probe.w, probe.s))
        /\ probe.w % probe.s = 0 => probe.x = (probe.s * probe.n) % probe.w
        /\ (probe.w = 320 /\ probe.s = 8 /\ probe.n = 40) => probe.x = 0

\* forty redraws at speed 8 on a 320 pixel wide display
C17_Witness ==
    /\ probe.fn = "motion"
    /\ probe.w = 320
    /\ probe.s = 8
    /\ probe.n = 40
    /\ probe.x = 0

\* C18: along an axis of length L > 1 the gradient value at p is
\* (p * 255) / (L - 1) untruncated, within 0..255, 0 at p = 0, 255 at
\* p = L - 1, and never below the value at p - 1.
C18_GradientRamp ==
    probe.fn = "gradient" =>
        /\ probe.raw = (probe.p * 255) \div (probe.len - 1)
        /\ probe.raw \in 0..255
        /\ probe.v = probe.raw
        /\ probe.p = 0 => probe.v = 0
        /\ probe.p = probe.len - 1 => probe.v = 255
        /\ probe.p > 0 => probe.v >= probe.vprev

\* the last pixel of a 257 pixel axis, one more than the last but one
C18_Witness ==
    /\ probe.fn = "gradient"
    /\ probe.len = 257
    /\ probe.p = 256
    /\ probe.v = 255
    /\ probe.vprev = 254

\* C19: on a display at least as large as the patch area each of the ten
\* patches covers at least one pixel inside the display: the near-black ones
\* (values 1..5) from the top-left corner, the near-white ones (values
\* 250..254) up to the right edge in the bottom band.
C19_TenPatchesNonEmpty ==
    probe.fn = "patches" =>
        /\ probe.rect.y0 < probe.rect.y1
        /\ probe.rect.x0 < probe.rect.x1
        /\ probe.rect.y1 <= probe.h
        /\ probe.rect.x1 <= probe.w
        /\ probe.kind = "black" =>
              probe.rect.v = 1 + probe.i /\ probe.rect.x0 = 0
        /\ probe.kind = "white" =>
              probe.rect.v = 250 + probe.i /\ probe.rect.x1 = probe.w

\* C20: whenever the pattern is Motion the speed is one of 1, 2, 4, 8, 16, 32
\* and the bar position is within 0..width-1, whatever advances, retreats,
\* toggles and redraws came before; a Motion redraw puts the bar at the old
\* position plus direction times speed, at 0 if that is at or beyond the
\* width, at width - 1 if that is negative (as a leftward bar at the same
\* place would be).
C20_MotionWithinDisplay ==
    /\ state.pattern = "Motion" =>
          /\ state.motion_speed \in {1, 2, 4, 8, 16, 32}
          /\ state.motion_x \in 0..(DispW - 1)
    /\ (call.op = "tick" /\ call.ret = "drawn"
           /\ call.pre.state.pattern = "Motion") =>
          LET old == call.pre.state
              nx == old.motion_x + old.motion_dir * old.motion_speed
              left == old.motion_x - old.motion_speed
          IN /\ state.motion_x =
                   IF nx >= DispW THEN 0 ELSE IF nx < 0 THEN DispW - 1 ELSE nx
             /\ motion_advance(old.motion_x, -1, old.motion_speed, DispW) =
                   IF left < 0 THEN DispW - 1 ELSE left

\* a redraw that took the bar from inside the display back to 0, at a speed
\* reached by cycling with M
C20_Witness ==
    /\ call.op = "tick"
    /\ call.ret = "drawn"
    /\ call.pre.state.pattern = "Motion"
    /\ call.pre.state.motion_x > 0
    /\ call.pre.state.motion_speed = 2
    /\ state.motion_x = 0

\* C21: the Motion bar moves only in an iteration that goes on to submit the
\* frame it rendered: an iteration that finds a flip pending, and so writes
\* and flips nothing, leaves motion_x where it was.
C21_BarMovesOnlyWhenSubmitted ==
    [][(pc = "tick" /\ pc' # "write") => state'.motion_x = state.motion_x]_vars

\* C22: while pause is set main is never at write_to_back or flip; the rest
\* of an iteration after the keys goes straight back to poll with the
\* AppState (so the bar), the Surface, the device and the redraw flag as they
\* were; a completion event read during the pause still swaps front and
\* clears the pending flag; keys are still acted on (a retreat moves the
\* cursor, P ends the pause) and flag a redraw; and no step taken during the
\* pause takes the redraw flag down, so it is still set when the pause ends.
C22_PauseFreezesOutput ==
    pause =>
        /\ pc \in {"poll", "drm", "kb", "kbloop", "tick", "exit"}
        /\ pc = "tick" =>
              ~ENABLED (/\ MainTick
                        /\ ~(/\ pc' = "poll"
                             /\ UNCHANGED <<state, pause, need_redraw, surface,
                                            card, last_write>>))
        /\ (pc = "drm" /\ drm_ready /\ surface.is_flipping
               /\ HasPageFlip(card.events)) =>
              /\ ENABLED (MainDrm /\ pc' = "kb")
              /\ ~ENABLED (/\ MainDrm
                           /\ pc' = "kb"
                           /\ surface' # [front |-> 1 - surface.front,
                                          is_flipping |-> FALSE])
        /\ pc = "kbloop" =>
              /\ ENABLED (/\ MainKbEventOn([code |-> "KEY_LEFT", value |-> 1])
                          /\ state' = previous_step(state)
                          /\ pause'
                          /\ need_redraw')
              /\ ENABLED (/\ MainKbEventOn([code |-> "KEY_P", value |-> 1])
                          /\ state' = state
                          /\ ~pause'
                          /\ need_redraw')
        /\ (need_redraw /\ pc # "exit") => ~ENABLED (Next /\ ~need_redraw')

\* paused on a Motion step whose bar has moved, the earlier flip completed
\* and absorbed during the pause, the redraw asked for still flagged and
\* nothing written since the frame now in front
C22_Witness ==
    /\ pause
    /\ pc = "poll"
    /\ need_redraw
    /\ state.pattern = "Motion"
    /\ state.motion_x > 0
    /\ ~surface.is_flipping
    /\ last_write.frame = surface.front
    /\ last_write.flipping = FALSE

C24_RejectedFlipLeavesIdle ==
    /\ (call.op = "flip" /\ call.arg = 0 /\ ~call.pre.surface.is_flipping) =>
          /\ call.ret = "page_flip failed"
          /\ surface = call.pre.surface
          /\ ~surface.is_flipping
          /\ Len(card.pending) <= Len(call.pre.card.pending)
    /\ (call.op = "flip" /\ prev.kind = "flip"
           /\ prev.ret = "page_flip failed") =>
          /\ call.ret # "flip already pending"
          /\ call.arg = 1 => (call.ret = "ok" /\ surface.is_flipping)

\* a flip refused by the device, with frame 1 in front after an earlier flip
\* had completed and been absorbed
C24_Witness ==
    /\ call.op = "flip"
    /\ call.ret = "page_flip failed"
    /\ prev.kind = "handle_drm_events"
    /\ prev.ret = "true"
    /\ surface = [front |-> 1, is_flipping |-> FALSE]
====
